---- MODULE Spec2Model ----
(***************************************************************************)
(* Model of the refine-app core: the useAuth hook (email/OTP step machine  *)
(* with its countdown timer) and the useChat hook with ChatService         *)
(* (chat collection, current chat, localStorage persistence).              *)
(*                                                                         *)
(* Every event-loop task (a handler invocation, the continuation of an     *)
(* awaited provider call, an interval callback) is one action.  React      *)
(* closures are modelled by what they capture: an async handler keeps the  *)
(* timerInterval / pendingEmail of the render it was invoked from.         *)
(***************************************************************************)
EXTENDS Integers, Sequences, FiniteSets, TLC

VARIABLES
    authState,       \* useAuth: the AuthState object
    timerInterval,   \* useAuth: the timerInterval React state (0 = null)
    intervals,       \* the setInterval handles that are still scheduled
    nextInterval,    \* number of setInterval handles handed out so far
    calls,           \* provider calls in flight, with what their closure captured
    signOuts,        \* logout calls awaiting the provider's signOut
    sessionStore,    \* localStorage 'supabase_session'
    mounted,         \* useAuth: the component that owns the hook is mounted
    chatState,       \* useChat: the ChatState object
    isGeneratingRef, \* useChat: isGeneratingRef.current
    pendingSend,     \* the sendMessage calls awaiting generateAIResponse
    storedChats,     \* localStorage chats key (serialized), or absent
    storedCurrentId, \* localStorage current-chat-id key, or absent
    errorTimeouts,   \* useChat: the errors whose auto-clear timeout is pending
    clock,           \* Date.now(); time moves on between two tasks that read it
    nextId,          \* number of ids generateId has produced
    lastEvent        \* the handler that ran last, and its outcome

authVars == <<authState, timerInterval, intervals, nextInterval, calls, signOuts,
              sessionStore, mounted>>
chatVars == <<chatState, isGeneratingRef, pendingSend, storedChats, storedCurrentId,
              errorTimeouts, clock, nextId>>
vars == <<authState, timerInterval, intervals, nextInterval, calls, signOuts,
          sessionStore, mounted, chatState, isGeneratingRef, pendingSend, storedChats, storedCurrentId,
          errorTimeouts, clock, nextId, lastEvent>>

(***************************************************************************)
(* Bounds of the model.                                                    *)
(***************************************************************************)
MaxTimers == 3
MaxCalls == 2
MaxClock == 3

\* Date.now() when the session starts (seconds)
SessionStart == 1

(***************************************************************************)
(* Shared values.                                                          *)
(***************************************************************************)
null == "null"

\* op: the handler that ran; outcome: the path it took
Event(op, outcome) == [op |-> op, outcome |-> outcome]

RemoveAt(s, i) == [j \in 1..(Len(s) - 1) |-> IF j < i THEN s[j] ELSE s[j + 1]]

(***************************************************************************)
(* useAuth                                                                 *)
(***************************************************************************)
Emails == {"a@x.io"}

OTP_SECONDS == 120

NoInterval == 0

IdleTimer == [timeRemaining |-> 0, isActive |-> FALSE, canResend |-> TRUE]

InitialAuthState ==
    [isLoading |-> FALSE, error |-> null, isAuthenticated |-> FALSE,
     authStep |-> "email_input", user |-> null, pendingEmail |-> null,
     otpTimer |-> IdleTimer]

StartedTimer == [timeRemaining |-> OTP_SECONDS, isActive |-> TRUE, canResend |-> FALSE]

SESSION_EXPIRES_IN == 3600

OtpCodes == {"123456"}

\* What the IdentityProvider may answer to sendOTPToEmail / verifyOTPCode.
SendResults ==
    {[success |-> TRUE, error |-> null],
     [success |-> FALSE, error |-> "Rate limit exceeded"],
     [success |-> FALSE, error |-> ""],
     [success |-> FALSE, error |-> null]}

VerifyResults ==
    {[success |-> TRUE, user |-> TRUE, error |-> null],
     [success |-> TRUE, user |-> FALSE, error |-> null],
     [success |-> FALSE, user |-> FALSE, error |-> "Invalid verification code"],
     [success |-> FALSE, user |-> FALSE, error |-> ""],
     [success |-> FALSE, user |-> FALSE, error |-> null]}

\* the truthiness of an optional string: undefined, null and '' are falsy
Truthy(a) == a \notin {null, ""}

\* a || b on an optional string
OrElse(a, b) == IF Truthy(a) THEN a ELSE b

\* what a rejected provider call is caught with: an Error with a message, an
\* Error with an empty message, or a value that is not an Error
Rejections ==
    {[isError |-> TRUE, message |-> "Network error"],
     [isError |-> TRUE, message |-> ""],
     [isError |-> FALSE, message |-> null]}

\* error instanceof Error ? error.message : fallback
catchMessage(error, fallback) == IF error.isError THEN error.message ELSE fallback

\* SupabaseAuthService.storeSession: a setItem that throws is swallowed
storeSession(store, session, throws) == IF throws THEN store ELSE <<session>>

\* SupabaseAuthService.clearStoredSession: a removeItem that throws is swallowed
clearStoredSession(store, throws) == IF throws THEN store ELSE <<>>

\* the session verifyOTPCode stores at time now (seconds)
mockSession(email, now) ==
    [email |-> email, expires_in |-> SESSION_EXPIRES_IN, last_sign_in_at |-> now]

\* localStorage 'supabase_session' at startup: <<>> when absent, else
\* <<session>>, stored a minute ago or more than expires_in seconds ago
StoredSessions ==
    {<<>>,
     <<mockSession("a@x.io", SessionStart - 60)>>,
     <<mockSession("a@x.io", SessionStart - (SESSION_EXPIRES_IN + 60))>>}

\* SupabaseAuthService.getStoredSession: the expiry test compares now with
\* now + expires_in, both read at the time of the call.
getStoredSession(store, now) ==
    IF store = <<>> THEN <<>>
    ELSE IF now >= now + store[1].expires_in THEN <<>>
    ELSE store

\* the initializeAuth effect run on mount
initializeAuth(st, store, now) ==
    LET storedSession == getStoredSession(store, now) IN
    IF storedSession # <<>>
    THEN [st EXCEPT !.isAuthenticated = TRUE, !.authStep = "authenticated",
                    !.user = storedSession[1].email, !.isLoading = FALSE]
    ELSE st

\* stopOTPTimer, run from a closure that captured `captured` as timerInterval
stopOTPTimerIntervals(captured) ==
    IF captured # NoInterval THEN intervals \ {captured} ELSE intervals

stopOTPTimerState(captured) ==
    IF captured # NoInterval THEN NoInterval ELSE timerInterval

\* The cleanup effect, whose dependency is stopOTPTimer (a new function each
\* time timerInterval changes).  A handler's batched updates are rendered with
\* timerInterval = next after a render with timerInterval = committed; when the
\* two differ the cleanup of the earlier render runs the stopOTPTimer of that
\* render, which clears `committed` and sets timerInterval to null, and the
\* render this causes runs the stopOTPTimer of `next` in turn.
effectIntervals(committed, next, scheduled) ==
    IF next = committed \/ committed = NoInterval THEN scheduled
    ELSE scheduled \ {committed, next}

effectTimerInterval(committed, next) ==
    IF next = committed \/ committed = NoInterval THEN next ELSE NoInterval

\* setAuthState: a state update of an unmounted component is dropped
setAuthState(next) == IF mounted THEN next ELSE authState

\* setTimerInterval, likewise
setTimerInterval(next) == IF mounted THEN next ELSE timerInterval

\* startOTPTimer with a countdown of one minute
startOTPTimerStateShort(st) ==
    [st EXCEPT !.otpTimer = [StartedTimer EXCEPT !.timeRemaining = 60]]

\* startOTPTimer: the timer fields it sets
startOTPTimerState(st) == [st EXCEPT !.otpTimer = StartedTimer]

\* an interval callback that stops one tick late
timerTickStateLate(st) ==
    LET newTimeRemaining == st.otpTimer.timeRemaining - 1 IN
    IF newTimeRemaining < 0
    THEN [st EXCEPT !.otpTimer = IdleTimer]
    ELSE [st EXCEPT !.otpTimer.timeRemaining = newTimeRemaining]

\* the interval callback of startOTPTimer
timerTickState(st) ==
    LET newTimeRemaining == st.otpTimer.timeRemaining - 1 IN
    IF newTimeRemaining <= 0
    THEN [st EXCEPT !.otpTimer = IdleTimer]
    ELSE [st EXCEPT !.otpTimer.timeRemaining = newTimeRemaining]

\* loginWithEmail: the state updates of its three phases
loginStartedState(st) == [st EXCEPT !.isLoading = TRUE, !.error = null]

loginSucceededState(st, email) ==
    [startOTPTimerState(st) EXCEPT !.isLoading = FALSE, !.error = null,
                                   !.authStep = "otp_verification",
                                   !.pendingEmail = email]

\* a failure handler that also sends the user back to the email step
loginFailedStateResets(st, result) ==
    [st EXCEPT !.isLoading = FALSE,
               !.error = OrElse(result.error, "Failed to send OTP"),
               !.authStep = "email_input",
               !.pendingEmail = null]

loginFailedState(st, result) ==
    [st EXCEPT !.isLoading = FALSE,
               !.error = OrElse(result.error, "Failed to send OTP")]

\* loginWithEmail: the catch block reached by a sendOTPToEmail that rejected
loginThrewState(st, error) ==
    [st EXCEPT !.isLoading = FALSE,
               !.error = catchMessage(error, "Failed to send OTP. Please try again.")]

\* a verifyOTP that raises isLoading before it looks for the pending email
verifyMissingEmailStateLoading(st) ==
    [st EXCEPT !.isLoading = TRUE,
               !.error = "No email found for verification. Please start over."]

\* verifyOTP
verifyMissingEmailState(st) ==
    [st EXCEPT !.error = "No email found for verification. Please start over."]

verifySucceededState(email) ==
    [isLoading |-> FALSE, error |-> null, isAuthenticated |-> TRUE,
     authStep |-> "authenticated", user |-> email, pendingEmail |-> null,
     otpTimer |-> IdleTimer]

verifyFailedState(st, result) ==
    [st EXCEPT !.isLoading = FALSE,
               !.error = OrElse(result.error, "Failed to verify OTP")]

\* verifyOTP: the catch block reached by a verifyOTPCode that rejected
verifyThrewState(st, error) ==
    [st EXCEPT !.isLoading = FALSE,
               !.error = catchMessage(error, "Failed to verify OTP. Please try again.")]

\* resendOTP without a pending email
resendMissingEmailState(st) ==
    [st EXCEPT !.error = "No email found for resending OTP. Please start over."]

goBackToEmailState(st) ==
    [st EXCEPT !.authStep = "email_input", !.pendingEmail = null,
               !.error = null, !.otpTimer = IdleTimer]

PendingSends == {i \in 1..Len(calls) : calls[i].kind = "send"}

\* the provider calls that have not settled: sends, verifies and signOuts
CallsInFlight == Len(calls) + signOuts

\* room for one more provider call that may start a timer
CanCallProvider ==
    /\ CallsInFlight < MaxCalls
    /\ nextInterval + Cardinality(PendingSends) < MaxTimers

SendCall(email) ==
    [kind |-> "send", email |-> email, token |-> null,
     capturedTimer |-> timerInterval]

VerifyCall(email, otpCode) ==
    [kind |-> "verify", email |-> email, token |-> otpCode,
     capturedTimer |-> timerInterval]

\* what IdentityProvider.signOut may do: resolve with success, resolve with an
\* error, or reject
SignOutResults ==
    {[success |-> TRUE, error |-> null, throws |-> FALSE],
     [success |-> FALSE, error |-> "Sign out failed", throws |-> FALSE],
     [success |-> FALSE, error |-> null, throws |-> TRUE]}

\* a logout that shows the provider's failure
logoutStateSurfacesError(result) ==
    [InitialAuthState EXCEPT
       !.error = IF result.success THEN null
                 ELSE OrElse(result.error, "Error during logout")]

\* logout: the state it sets after signOut settled, whatever the result
logoutState(result) == InitialAuthState

(* loginWithEmail(email), up to the await of sendOTPToEmail *)
LoginWithEmail(email) ==
    /\ mounted
    /\ CanCallProvider
    /\ authState' = loginStartedState(authState)
    /\ calls' = Append(calls, SendCall(email))
    /\ lastEvent' = Event("loginWithEmail", "called")
    /\ UNCHANGED <<timerInterval, intervals, nextInterval, signOuts, sessionStore, mounted>>
    /\ UNCHANGED chatVars

(* loginWithEmail after sendOTPToEmail resolved with success: startOTPTimer, *)
(* the state update, and the effects of the render they cause               *)
SendOTPSucceeded(i) ==
    /\ calls[i].kind = "send"
    /\ LET scheduled == stopOTPTimerIntervals(calls[i].capturedTimer)
                          \cup {nextInterval + 1}
       IN /\ intervals' = IF mounted
                          THEN effectIntervals(timerInterval, nextInterval + 1, scheduled)
                          ELSE scheduled
          /\ timerInterval' = IF mounted
                              THEN effectTimerInterval(timerInterval, nextInterval + 1)
                              ELSE timerInterval
    /\ nextInterval' = nextInterval + 1
    /\ authState' = setAuthState(loginSucceededState(authState, calls[i].email))
    /\ calls' = RemoveAt(calls, i)
    /\ lastEvent' = Event("loginWithEmail", "success")
    /\ UNCHANGED <<signOuts, sessionStore, mounted>>
    /\ UNCHANGED chatVars

(* loginWithEmail after sendOTPToEmail resolved with a failure *)
SendOTPFailed(i, result) ==
    /\ calls[i].kind = "send"
    /\ ~result.success
    /\ authState' = setAuthState(loginFailedState(authState, result))
    /\ calls' = RemoveAt(calls, i)
    /\ lastEvent' = Event("loginWithEmail", "failure")
    /\ UNCHANGED <<timerInterval, intervals, nextInterval, signOuts, sessionStore, mounted>>
    /\ UNCHANGED chatVars

(* loginWithEmail after sendOTPToEmail rejected *)
SendOTPThrew(i, error) ==
    /\ calls[i].kind = "send"
    /\ authState' = setAuthState(loginThrewState(authState, error))
    /\ calls' = RemoveAt(calls, i)
    /\ lastEvent' = Event("loginWithEmail", "threw")
    /\ UNCHANGED <<timerInterval, intervals, nextInterval, signOuts, sessionStore, mounted>>
    /\ UNCHANGED chatVars

(* verifyOTP(otpCode), up to the await of verifyOTPCode *)
VerifyOTP(otpCode) ==
    /\ mounted
    /\ IF authState.pendingEmail = null
       THEN /\ authState' = verifyMissingEmailState(authState)
            /\ lastEvent' = Event("verifyOTP", "missing email")
            /\ UNCHANGED calls
       ELSE /\ CallsInFlight < MaxCalls
            /\ authState' = loginStartedState(authState)
            /\ calls' = Append(calls, VerifyCall(authState.pendingEmail, otpCode))
            /\ lastEvent' = Event("verifyOTP", "called")
    /\ UNCHANGED <<timerInterval, intervals, nextInterval, signOuts, sessionStore, mounted>>
    /\ UNCHANGED chatVars

(* verifyOTP after verifyOTPCode resolved with a user: stopOTPTimer, the    *)
(* state update, and the effects of the render they cause; verifyOTPCode    *)
(* stamps the session it stores with the time it resolves at; throws tells  *)
(* whether localStorage.setItem threw                                       *)
VerifyOTPSucceeded(i, throws) ==
    /\ calls[i].kind = "verify"
    /\ clock < MaxClock
    /\ LET scheduled == stopOTPTimerIntervals(calls[i].capturedTimer)
           next == stopOTPTimerState(calls[i].capturedTimer)
       IN /\ intervals' = IF mounted
                          THEN effectIntervals(timerInterval, next, scheduled)
                          ELSE scheduled
          /\ timerInterval' = IF mounted
                              THEN effectTimerInterval(timerInterval, next)
                              ELSE timerInterval
    /\ authState' = setAuthState(verifySucceededState(calls[i].email))
    /\ sessionStore' = storeSession(sessionStore,
                                    mockSession(calls[i].email, clock + 1), throws)
    /\ clock' = clock + 1
    /\ calls' = RemoveAt(calls, i)
    /\ lastEvent' = Event("verifyOTP", "success")
    /\ UNCHANGED <<nextInterval, signOuts, mounted>>
    /\ UNCHANGED <<chatState, isGeneratingRef, pendingSend, storedChats, storedCurrentId,
                   errorTimeouts, nextId>>

(* verifyOTP after verifyOTPCode resolved without success or without a user *)
VerifyOTPFailed(i, result) ==
    /\ calls[i].kind = "verify"
    /\ ~(result.success /\ result.user)
    /\ authState' = setAuthState(verifyFailedState(authState, result))
    /\ calls' = RemoveAt(calls, i)
    /\ lastEvent' = Event("verifyOTP", "failure")
    /\ UNCHANGED <<timerInterval, intervals, nextInterval, signOuts, sessionStore, mounted>>
    /\ UNCHANGED chatVars

(* verifyOTP after verifyOTPCode rejected *)
VerifyOTPThrew(i, error) ==
    /\ calls[i].kind = "verify"
    /\ authState' = setAuthState(verifyThrewState(authState, error))
    /\ calls' = RemoveAt(calls, i)
    /\ lastEvent' = Event("verifyOTP", "threw")
    /\ UNCHANGED <<timerInterval, intervals, nextInterval, signOuts, sessionStore, mounted>>
    /\ UNCHANGED chatVars

(* resendOTP() *)
ResendOTP ==
    /\ mounted
    /\ IF authState.pendingEmail = null
       THEN /\ authState' = resendMissingEmailState(authState)
            /\ lastEvent' = Event("resendOTP", "missing email")
            /\ UNCHANGED calls
       ELSE /\ CanCallProvider
            /\ authState' = loginStartedState(authState)
            /\ calls' = Append(calls, SendCall(authState.pendingEmail))
            /\ lastEvent' = Event("resendOTP", "called")
    /\ UNCHANGED <<timerInterval, intervals, nextInterval, signOuts, sessionStore, mounted>>
    /\ UNCHANGED chatVars

(* goBackToEmail() *)
GoBackToEmail ==
    /\ mounted
    /\ intervals' = effectIntervals(timerInterval, stopOTPTimerState(timerInterval),
                                    stopOTPTimerIntervals(timerInterval))
    /\ timerInterval' = effectTimerInterval(timerInterval, stopOTPTimerState(timerInterval))
    /\ authState' = goBackToEmailState(authState)
    /\ lastEvent' = Event("goBackToEmail", "done")
    /\ UNCHANGED <<nextInterval, calls, signOuts, sessionStore, mounted>>
    /\ UNCHANGED chatVars

(* logout(), up to the await of signOut: stopOTPTimer and the effects of    *)
(* the render it causes, then the call of signOut, which clears the stored  *)
(* session before it settles; throws tells whether localStorage.removeItem  *)
(* threw                                                                    *)
Logout(throws) ==
    /\ mounted
    /\ CallsInFlight < MaxCalls
    /\ intervals' = effectIntervals(timerInterval, stopOTPTimerState(timerInterval),
                                    stopOTPTimerIntervals(timerInterval))
    /\ timerInterval' = effectTimerInterval(timerInterval, stopOTPTimerState(timerInterval))
    /\ sessionStore' = clearStoredSession(sessionStore, throws)
    /\ signOuts' = signOuts + 1
    /\ lastEvent' = Event("logout", "called")
    /\ UNCHANGED <<authState, nextInterval, calls, mounted>>
    /\ UNCHANGED chatVars

(* logout after signOut settled: result is what the provider did *)
SignOutSettled(result) ==
    /\ signOuts > 0
    /\ signOuts' = signOuts - 1
    /\ authState' = setAuthState(logoutState(result))
    /\ lastEvent' = Event("logout", IF result.success THEN "success"
                                    ELSE IF result.throws THEN "threw" ELSE "error")
    /\ UNCHANGED <<timerInterval, intervals, nextInterval, calls, sessionStore, mounted>>
    /\ UNCHANGED chatVars

(* one run of the interval callback of handle i.  Once the component is     *)
(* unmounted React may or may not run the updater, which is where the       *)
(* callback clears its own interval.                                        *)
TimerTick(i) ==
    /\ i \in intervals
    /\ authState' = setAuthState(timerTickState(authState))
    /\ \/ intervals' = IF authState.otpTimer.timeRemaining - 1 <= 0
                       THEN intervals \ {i} ELSE intervals
       \/ /\ ~mounted
          /\ intervals' = intervals
    /\ lastEvent' = Event("timerTick", "done")
    /\ UNCHANGED <<timerInterval, nextInterval, calls, signOuts, sessionStore, mounted>>
    /\ UNCHANGED chatVars

(* unmount of the component that owns the hook: the cleanup of the last     *)
(* render's effect runs that render's stopOTPTimer                          *)
Unmount ==
    /\ mounted
    /\ mounted' = FALSE
    /\ intervals' = stopOTPTimerIntervals(timerInterval)
    /\ lastEvent' = Event("unmount", "done")
    /\ UNCHANGED <<authState, timerInterval, nextInterval, calls, signOuts, sessionStore>>
    /\ UNCHANGED chatVars

AuthInit ==
    /\ \E store \in StoredSessions :
          /\ sessionStore = getStoredSession(store, SessionStart)
          /\ authState = initializeAuth(InitialAuthState, store, SessionStart)
    /\ timerInterval = NoInterval
    /\ intervals = {}
    /\ nextInterval = 0
    /\ calls = <<>>
    /\ signOuts = 0
    /\ mounted = TRUE

AuthNext ==
    \/ \E email \in Emails : LoginWithEmail(email)
    \/ \E i \in 1..Len(calls) : SendOTPSucceeded(i)
    \/ \E i \in 1..Len(calls), result \in SendResults : SendOTPFailed(i, result)
    \/ \E i \in 1..Len(calls), error \in Rejections : SendOTPThrew(i, error)
    \/ \E otpCode \in OtpCodes : VerifyOTP(otpCode)
    \/ \E i \in 1..Len(calls), throws \in BOOLEAN : VerifyOTPSucceeded(i, throws)
    \/ \E i \in 1..Len(calls), result \in VerifyResults : VerifyOTPFailed(i, result)
    \/ \E i \in 1..Len(calls), error \in Rejections : VerifyOTPThrew(i, error)
    \/ ResendOTP
    \/ GoBackToEmail
    \/ \E throws \in BOOLEAN : Logout(throws)
    \/ \E result \in SignOutResults : SignOutSettled(result)
    \/ \E i \in intervals : TimerTick(i)
    \/ Unmount

(***************************************************************************)
(* ChatService                                                             *)
(***************************************************************************)
\* options.maxChats: the configured cap (CHAT_DEFAULTS.MAX_CHATS by default),
\* kept small here so that the collection can outgrow it.
maxChats == 2

MaxIds == 9

\* chats the collection may hold before importChats is no longer called
MaxHeld == 2

\* auto-clear timeouts that may be pending at once
MaxErrorTimers == 1

MAX_TITLE == 50

Whitespace == {" ", "\n", "\t"}

LongContent == [i \in 1..(MAX_TITLE + 1) |-> IF i = 3 THEN " " ELSE "x"]

\* the texts handed to sendMessage
Contents ==
    {<<>>, <<" ", "\n">>, <<" ", "a", " ", "\n", "b", " ">>, LongContent}

ReplyContent == <<"O", "k">>

ErrorReplyContent == <<"S", "o", "r", "r", "y">>

\* what generateAIResponse may resolve to
AIResponses ==
    {[content |-> ReplyContent, success |-> TRUE, error |-> null],
     [content |-> ErrorReplyContent, success |-> FALSE, error |-> "Unknown error"],
     [content |-> ErrorReplyContent, success |-> FALSE, error |-> ""],
     [content |-> ErrorReplyContent, success |-> FALSE, error |-> null]}

RECURSIVE TrimStart(_)
TrimStart(s) ==
    IF s # <<>> /\ Head(s) \in Whitespace THEN TrimStart(Tail(s)) ELSE s

RECURSIVE TrimEnd(_)
TrimEnd(s) ==
    IF s # <<>> /\ s[Len(s)] \in Whitespace
    THEN TrimEnd(SubSeq(s, 1, Len(s) - 1)) ELSE s

\* String.prototype.trim
Trim(s) == TrimEnd(TrimStart(s))

\* s.replace(/\s+/g, ' ')
RECURSIVE CollapseWhitespace(_)
CollapseWhitespace(s) ==
    IF s = <<>> THEN <<>>
    ELSE IF Head(s) \in Whitespace
         THEN <<" ">> \o CollapseWhitespace(TrimStart(s))
         ELSE <<Head(s)>> \o CollapseWhitespace(Tail(s))

generateChatTitle(firstMessage) ==
    LET title == IF Len(firstMessage) > MAX_TITLE
                 THEN SubSeq(firstMessage, 1, MAX_TITLE) \o <<".", ".", ".">>
                 ELSE firstMessage
    IN Trim(CollapseWhitespace(title))

\* A Date is modelled by its time value in milliseconds, <<t>>, and an
\* Invalid Date (time value NaN) by <<>>.
InvalidDate == <<>>

\* new Date() at time now
DateAt(now) == <<now>>

createMessage(id, content, sender, now) ==
    [id |-> id, content |-> content, sender |-> sender, timestamp |-> DateAt(now),
     isLoading |-> FALSE]

createChat(id, initialMessage, now) ==
    [id |-> id, title |-> generateChatTitle(initialMessage.content),
     messages |-> <<initialMessage>>, createdAt |-> DateAt(now),
     updatedAt |-> DateAt(now)]

addMessageToChat(chat, message, now) ==
    [chat EXCEPT !.messages = Append(chat.messages, message),
                 !.updatedAt = DateAt(now)]

updateMessageInChat(chat, messageId, updates, now) ==
    [chat EXCEPT
       !.messages = [k \in 1..Len(chat.messages) |->
                       IF chat.messages[k].id = messageId
                       THEN [chat.messages[k] EXCEPT !.content = updates.content,
                                                     !.isLoading = updates.isLoading]
                       ELSE chat.messages[k]],
       !.updatedAt = DateAt(now)]

\* ChatService.deleteChat: chats.filter(chat => chat.id !== chatId)
serviceDeleteChat(chats, chatId) == SelectSeq(chats, LAMBDA c : c.id # chatId)

\* chats.findIndex(c => c.id === id), 0 when there is none
FindIndex(chats, id) ==
    IF \E k \in 1..Len(chats) : chats[k].id = id
    THEN CHOOSE k \in 1..Len(chats) :
           /\ chats[k].id = id
           /\ \A j \in 1..(k - 1) : chats[j].id # id
    ELSE 0

\* the comparator (a, b) => b.updatedAt.getTime() - a.updatedAt.getTime();
\* getTime() of an Invalid Date is NaN, and sort takes a NaN result for +0
compareUpdatedAt(a, b) ==
    IF a.updatedAt = InvalidDate \/ b.updatedAt = InvalidDate THEN 0
    ELSE b.updatedAt[1] - a.updatedAt[1]

\* the comparator is a consistent comparator for these chats: without an
\* Invalid Date it orders them by time; with one, which it takes for equal to
\* every chat, only when it takes all of them for equal
ConsistentComparator(chats) ==
    \/ \A k \in 1..Len(chats) : chats[k].updatedAt # InvalidDate
    \/ \A j, k \in 1..Len(chats) : compareUpdatedAt(chats[j], chats[k]) = 0

\* the order a stable sort gives under a consistent comparator
RECURSIVE InsertByUpdatedAt(_, _)
InsertByUpdatedAt(sorted, chat) ==
    IF sorted = <<>> THEN <<chat>>
    ELSE IF compareUpdatedAt(sorted[Len(sorted)], chat) <= 0
         THEN Append(sorted, chat)
         ELSE Append(InsertByUpdatedAt(SubSeq(sorted, 1, Len(sorted) - 1), chat),
                     sorted[Len(sorted)])

RECURSIVE StableSort(_)
StableSort(chats) ==
    IF chats = <<>> THEN <<>>
    ELSE InsertByUpdatedAt(StableSort(SubSeq(chats, 1, Len(chats) - 1)),
                           chats[Len(chats)])

\* the orders of the same chats
Reorderings(chats) ==
    {[k \in 1..Len(chats) |-> chats[p[k]]] : p \in Permutations(1..Len(chats))}

\* Array.prototype.sort with that comparator: the orders it may leave the array
\* in.  Under a consistent comparator that is the one stable order; otherwise
\* the order is implementation-defined, and may be any
SortByUpdatedAt(chats) ==
    IF ConsistentComparator(chats) THEN {StableSort(chats)}
    ELSE Reorderings(chats)

Take(s, n) == SubSeq(s, 1, IF Len(s) < n THEN Len(s) ELSE n)

MS_PER_DAY == 86400000

\* Date.prototype.toISOString of the time value t: the fields of the text
\* YYYY-MM-DDTHH:mm:ss.sssZ, the calendar date YYYY-MM-DD being kept as the
\* number of its day (days since 1970-01-01)
toISOString(t) ==
    [date |-> t \div MS_PER_DAY,
     hours |-> (t % MS_PER_DAY) \div 3600000,
     minutes |-> (t \div 60000) % 60,
     seconds |-> (t \div 1000) % 60,
     milliseconds |-> t % 1000]

\* Date.parse of such a text: its time value
DateParse(iso) ==
    iso.date * MS_PER_DAY + iso.hours * 3600000 + iso.minutes * 60000
      + iso.seconds * 1000 + iso.milliseconds

\* A JSON value in the place of a date is <<>> for null and <<iso>> for the
\* text iso; a member that is absent is absent from the record.
\* Date.prototype.toJSON as JSON.stringify calls it: null for an Invalid Date
toJSON(date) == IF date = InvalidDate THEN <<>> ELSE <<toISOString(date[1])>>

\* new Date(item[field]) on a parsed item: undefined gives an Invalid Date,
\* null the epoch, an ISO text its time value
newDate(item, field) ==
    IF field \notin DOMAIN item THEN InvalidDate
    ELSE IF item[field] = <<>> THEN DateAt(0)
    ELSE DateAt(DateParse(item[field][1]))

\* { ...object, ...members }
Spread(object, members) ==
    [f \in DOMAIN object \cup DOMAIN members |->
       IF f \in DOMAIN members THEN members[f] ELSE object[f]]

\* JSON.stringify of a chat list: every Date is written by its toJSON
StringifyMessage(m) == [m EXCEPT !.timestamp = toJSON(m.timestamp)]

StringifyChat(c) ==
    [c EXCEPT !.createdAt = toJSON(c.createdAt),
              !.updatedAt = toJSON(c.updatedAt),
              !.messages = [k \in 1..Len(c.messages) |-> StringifyMessage(c.messages[k])]]

StringifyChats(chats) == [k \in 1..Len(chats) |-> StringifyChat(chats[k])]

\* A JSON text is modelled by what JSON.parse makes of it: json = "invalid"
\* when it does not parse, "object" when it parses to something that is not an
\* array, "array" with its items otherwise.
JSONstringify(chats) == [json |-> "array", items |-> StringifyChats(chats)]

\* the date rehydration of loadChats
ReviveMessage(m) == Spread(m, [timestamp |-> newDate(m, "timestamp")])

ReviveChat(c) ==
    Spread(c, [createdAt |-> newDate(c, "createdAt"),
               updatedAt |-> newDate(c, "updatedAt"),
               messages |-> [k \in 1..Len(c.messages) |-> ReviveMessage(c.messages[k])]])

\* the try block of loadChats throws: JSON.parse fails, the value has no map,
\* or an item has no messages to map over
loadChatsThrows(text) ==
    \/ text.json # "array"
    \/ \E k \in 1..Len(text.items) : "messages" \notin DOMAIN text.items[k]

\* ChatService.loadChats on the stored value (<<>> when the key is absent)
loadChats(stored) ==
    IF stored = <<>> THEN <<>>
    ELSE IF loadChatsThrows(stored[1]) THEN <<>>
    ELSE [k \in 1..Len(stored[1].items) |-> ReviveChat(stored[1].items[k])]

\* ChatService.saveChats: the value written under the chats key, sorted being
\* the order chats.sort left the chats in
saveChats(sorted) == <<JSONstringify(Take(sorted, maxChats))>>


(***************************************************************************)
(* useChat                                                                 *)
(***************************************************************************)
\* currentChat and the stored keys are <<>> when null / absent, else <<value>>
InitialChatState ==
    [currentChat |-> <<>>, chats |-> <<>>, isLoading |-> FALSE, error |-> null]

\* the ids selectChat / deleteChat are called with: those of the chats at hand,
\* of the current chat, and one id that designates no chat
ChatIds ==
    {chatState.chats[k].id : k \in 1..Len(chatState.chats)}
      \cup {chatState.currentChat[k].id : k \in 1..Len(chatState.currentChat)}
      \cup {0}

\* the save effect: saveChats sorts the state's array in place, sorted being
\* the order chats.sort leaves it in
effectChats(st, sorted) ==
    IF Len(st.chats) > 0 THEN sorted ELSE st.chats

effectStoredChats(st, stored, sorted) ==
    IF Len(st.chats) > 0 THEN saveChats(sorted) ELSE stored

\* ChatService.saveCurrentChatId as the save effect calls it
effectStoredCurrentId(st, storedId) ==
    IF st.currentChat # <<>> THEN <<st.currentChat[1].id>> ELSE storedId

\* a handler leaves state st and storage (stored, storedId); the save effect runs
Commit(st, stored, storedId) ==
    \E sorted \in SortByUpdatedAt(st.chats) :
      /\ chatState' = [st EXCEPT !.chats = effectChats(st, sorted)]
      /\ storedChats' = effectStoredChats(st, stored, sorted)
      /\ storedCurrentId' = effectStoredCurrentId(st, storedId)

\* the load effect: state after loadChats / loadCurrentChatId
loadInitialState(stored, storedId) ==
    LET chats == loadChats(stored)
        idx == IF storedId = <<>> THEN 0 ELSE FindIndex(chats, storedId[1])
    IN [InitialChatState EXCEPT
          !.chats = chats,
          !.currentChat = IF idx > 0 THEN <<chats[idx]>> ELSE <<>>]

createNewChatState(st) == [st EXCEPT !.currentChat = <<>>, !.error = null]

\* a selectChat that drops the current chat when the id is unknown
selectChatStateClears(st, chatId) ==
    LET idx == FindIndex(st.chats, chatId) IN
    IF idx = 0 THEN [st EXCEPT !.error = "Chat not found", !.currentChat = <<>>]
    ELSE [st EXCEPT !.currentChat = <<st.chats[idx]>>, !.error = null]

selectChatState(st, chatId) ==
    LET idx == FindIndex(st.chats, chatId) IN
    IF idx = 0 THEN [st EXCEPT !.error = "Chat not found"]
    ELSE [st EXCEPT !.currentChat = <<st.chats[idx]>>, !.error = null]

\* a deleteChat that never touches the current chat
deleteChatStateKeepsCurrent(st, chatId) ==
    [st EXCEPT !.chats = serviceDeleteChat(st.chats, chatId)]

\* a deleteChat that drops the current chat whichever chat is deleted
deleteChatStateClears(st, chatId) ==
    [st EXCEPT !.chats = serviceDeleteChat(st.chats, chatId),
               !.currentChat = <<>>]

deleteChatState(st, chatId) ==
    LET isCurrentChat == st.currentChat # <<>> /\ st.currentChat[1].id = chatId IN
    [st EXCEPT !.chats = serviceDeleteChat(st.chats, chatId),
               !.currentChat = IF isCurrentChat THEN <<>> ELSE st.currentChat]

\* the second updater of deleteChat, which reads the state the first one left
deleteChatStoredCurrentId(st, chatId, storedId) ==
    IF st.currentChat # <<>> /\ st.currentChat[1].id = chatId THEN <<>> ELSE storedId

\* the optional chatId argument is <<>> when it is omitted, else <<id>>; an
\* id is a non-empty string, so `if (chatId)` tests that it was given
\* ids addMessage draws from generateId
addMessageIds(st, content, chatId) ==
    IF Trim(content) = <<>> THEN 0
    ELSE IF chatId = <<>> /\ st.currentChat = <<>> THEN 2
    ELSE 1

\* addMessage(content, sender, chatId?); generateId yields firstId + 1, ...
addMessage(st, content, sender, chatId, now, firstId) ==
    IF Trim(content) = <<>> THEN st
    ELSE
      LET message == createMessage(firstId + 1, content, sender, now) IN
      IF chatId # <<>>
      THEN LET chatIndex == FindIndex(st.chats, chatId[1]) IN
           IF chatIndex > 0
           THEN LET updated == addMessageToChat(st.chats[chatIndex], message, now) IN
                [st EXCEPT !.chats[chatIndex] = updated,
                           !.currentChat = <<updated>>,
                           !.error = null]
           ELSE [st EXCEPT !.error = null]
      ELSE IF st.currentChat # <<>>
      THEN LET chatIndex == FindIndex(st.chats, st.currentChat[1].id) IN
           IF chatIndex > 0
           THEN LET updated == addMessageToChat(st.currentChat[1], message, now) IN
                [st EXCEPT !.chats[chatIndex] = updated,
                           !.currentChat = <<updated>>,
                           !.error = null]
           ELSE [st EXCEPT !.error = null]
      ELSE LET chat == createChat(firstId + 2, message, now) IN
           [st EXCEPT !.chats = <<chat>> \o st.chats,
                      !.currentChat = <<chat>>,
                      !.error = null]

\* updateMessage(messageId, updates)
updateMessage(st, messageId, updates, now) ==
    IF st.currentChat = <<>> THEN st
    ELSE
      LET updatedChat == updateMessageInChat(st.currentChat[1], messageId, updates, now)
          chatIndex == FindIndex(st.chats, updatedChat.id)
      IN IF chatIndex > 0
         THEN [st EXCEPT !.chats[chatIndex] = updatedChat,
                         !.currentChat = <<updatedChat>>]
         ELSE st

\* a guard that forgets isGeneratingRef
sendMessageIgnoredBlankOnly(content) == Trim(content) = <<>>

\* the guard of sendMessage
sendMessageIgnored(content) == Trim(content) = <<>> \/ isGeneratingRef

\* sendMessage up to the await of generateAIResponse: the state, and the id of
\* the loading message it created; a pending send is recorded with its
\* content, that id, and the id of the chat its user message went to
sendMessageStartedState(st, content, now, firstId) ==
    LET st1 == [st EXCEPT !.isLoading = TRUE, !.error = null]
        st2 == addMessage(st1, content, "user", <<>>, now, firstId)
    IN addMessage(st2, <<>>, "assistant", <<>>, now,
                  firstId + addMessageIds(st1, content, <<>>) + 1)

loadingMessageId(st, content, firstId) == firstId + addMessageIds(st, content, <<>>) + 1

\* sendMessage after generateAIResponse resolved
sendMessageResolvedState(st, messageId, aiResponse, now) ==
    LET st1 == updateMessage(st, messageId,
                             [content |-> aiResponse.content, isLoading |-> FALSE], now)
        st2 == IF aiResponse.success THEN st1
               ELSE [st1 EXCEPT !.error = OrElse(aiResponse.error,
                                                "Failed to generate response")]
    IN [st2 EXCEPT !.isLoading = FALSE]

SendFailedMessage == "Failed to send message. Please try again."

\* sendMessage after generateAIResponse rejected: the catch block and finally
sendMessageThrewState(st) ==
    [st EXCEPT !.error = SendFailedMessage, !.isLoading = FALSE]

\* a sendMessage that clears its guard at the end of the try block only
sendMessageSettledRefNoFinally(outcome) == outcome = "threw"

\* isGeneratingRef.current once sendMessage has settled (the finally block)
sendMessageSettledRef(outcome) == FALSE

\* ChatService.exportChats / the hook's exportChats
exportChats(chats) == JSONstringify(chats)

\* a collection exported from another store: a chat with a reply
SampleChats ==
    <<addMessageToChat(createChat(102, createMessage(103, <<"h", "i">>, "user", 0), 0),
                       createMessage(104, ReplyContent, "assistant", 1), 1)>>

InvalidText == [json |-> "invalid", items |-> <<>>]

ObjectText == [json |-> "object", items |-> <<>>]

\* '[{"id": .., "title": .., "createdAt": .., "updatedAt": ..}]': no messages
NoMessagesText ==
    [json |-> "array",
     items |-> <<[id |-> 105, title |-> <<"t">>, createdAt |-> <<toISOString(1)>>,
                  updatedAt |-> <<toISOString(1)>>]>>]

\* '[{"id": .., "messages": [], "createdAt": .., "updatedAt": ..}]': no title
NoTitleText ==
    [json |-> "array",
     items |-> <<[id |-> 106, messages |-> <<>>, createdAt |-> <<toISOString(1)>>,
                  updatedAt |-> <<toISOString(1)>>]>>]

\* '[{"id": .., "title": .., "messages": []}]': no time stamps
NoDatesText ==
    [json |-> "array",
     items |-> <<[id |-> 107, title |-> <<"t">>, messages |-> <<>>]>>]

\* the texts importChats is called with in a session on the storage, besides
\* the export of the store itself
ImportTexts == {InvalidText, ObjectText, NoMessagesText, NoTitleText}

\* the texts importChats is called with in a conversation
ChatImportTexts == {InvalidText, exportChats(SampleChats)}

\* the texts importChats is called with in a session that exchanges
\* collections, besides the export of the store itself
ExchangeTexts == {InvalidText, NoDatesText}

\* ChatService.importChats throws: JSON.parse fails, the value has no map, or
\* an item has no messages to map over
importChatsThrows(jsonData) ==
    \/ jsonData.json # "array"
    \/ \E k \in 1..Len(jsonData.items) : "messages" \notin DOMAIN jsonData.items[k]

\* ChatService.importChats when it does not throw
serviceImportChats(jsonData) ==
    [k \in 1..Len(jsonData.items) |-> ReviveChat(jsonData.items[k])]

ImportFailedMessage == "Failed to import chats. Please check the file format."

\* the hook's importChats
importChatsState(st, jsonData) ==
    IF importChatsThrows(jsonData)
    THEN [st EXCEPT !.error = ImportFailedMessage]
    ELSE [st EXCEPT !.chats = serviceImportChats(jsonData) \o st.chats,
                    !.error = null]

\* setError(error): the state, and whether it schedules the auto-clear timeout
setErrorState(st, error) == [st EXCEPT !.error = error]

setErrorTimeouts(timeouts, error) ==
    IF Truthy(error) THEN Append(timeouts, error) ELSE timeouts

clearErrorState(st) == [st EXCEPT !.error = null]

\* the timeout callback of setError(error)
errorTimeoutState(st, error) ==
    IF st.error = error THEN [st EXCEPT !.error = null] ELSE st

\* the ids updateMessage is called with: those of the current chat's messages,
\* and one id that designates no message
MessageIds ==
    UNION {{chatState.currentChat[c].messages[k].id :
               k \in 1..Len(chatState.currentChat[c].messages)} :
            c \in 1..Len(chatState.currentChat)}
      \cup {0}

\* the patches updateMessage is called with
MessageUpdates == {[content |-> ReplyContent, isLoading |-> FALSE]}

\* what a caller of addMessage passes: a blank or a short text, either
\* sender, and no chatId or one of ChatIds
AddContents == {<<" ">>, <<"h", "i">>}

Senders == {"user", "assistant"}

OptionalChatIds == {<<>>} \cup {<<id>> : id \in ChatIds}

\* what a caller of setError passes
SetErrors == {null, "Something went wrong"}

(* mount of the hook: the load effect, then the save effect *)
Mount ==
    /\ Commit(loadInitialState(storedChats, storedCurrentId), storedChats, storedCurrentId)
    /\ isGeneratingRef' = FALSE
    /\ pendingSend' = <<>>
    /\ errorTimeouts' = <<>>
    /\ lastEvent' = Event("mount", "done")
    /\ UNCHANGED <<clock, nextId>>
    /\ UNCHANGED authVars

(* createNewChat() *)
CreateNewChat ==
    /\ Commit(createNewChatState(chatState), storedChats, <<>>)
    /\ lastEvent' = Event("createNewChat", "done")
    /\ UNCHANGED <<isGeneratingRef, pendingSend, errorTimeouts, clock, nextId>>
    /\ UNCHANGED authVars

(* selectChat(chatId) *)
SelectChat(chatId) ==
    /\ Commit(selectChatState(chatState, chatId), storedChats, storedCurrentId)
    /\ lastEvent' = Event("selectChat",
                          IF FindIndex(chatState.chats, chatId) = 0
                          THEN "not found" ELSE "selected")
    /\ UNCHANGED <<isGeneratingRef, pendingSend, errorTimeouts, clock, nextId>>
    /\ UNCHANGED authVars

(* deleteChat(chatId) *)
DeleteChat(chatId) ==
    /\ LET st == deleteChatState(chatState, chatId) IN
         Commit(st, storedChats, deleteChatStoredCurrentId(st, chatId, storedCurrentId))
    /\ lastEvent' = Event("deleteChat",
                          IF chatState.currentChat # <<>> /\ chatState.currentChat[1].id = chatId
                          THEN "current" ELSE "other")
    /\ UNCHANGED <<isGeneratingRef, pendingSend, errorTimeouts, clock, nextId>>
    /\ UNCHANGED authVars

(* clearAllChats() *)
ClearAllChats ==
    /\ Commit([chatState EXCEPT !.chats = <<>>, !.currentChat = <<>>, !.error = null],
              <<>>, <<>>)
    /\ lastEvent' = Event("clearAllChats", "done")
    /\ UNCHANGED <<isGeneratingRef, pendingSend, errorTimeouts, clock, nextId>>
    /\ UNCHANGED authVars

(* sendMessage(content), up to the await of generateAIResponse *)
SendMessage(content) ==
    IF sendMessageIgnored(content)
    THEN /\ lastEvent' = Event("sendMessage",
                               IF Trim(content) = <<>> THEN "ignored blank"
                               ELSE "ignored busy")
         /\ UNCHANGED <<chatState, isGeneratingRef, pendingSend, storedChats,
                        storedCurrentId, errorTimeouts, clock, nextId>>
         /\ UNCHANGED authVars
    ELSE /\ nextId + 3 <= MaxIds
         /\ clock < MaxClock
         /\ Commit(sendMessageStartedState(chatState, content, clock + 1, nextId),
                   storedChats, storedCurrentId)
         /\ isGeneratingRef' = TRUE
         /\ pendingSend' =
              Append(pendingSend,
                     [content |-> content,
                      messageId |-> loadingMessageId(chatState, content, nextId),
                      chatId |-> sendMessageStartedState(chatState, content, clock + 1,
                                                         nextId).currentChat[1].id])
         /\ nextId' = loadingMessageId(chatState, content, nextId)
         /\ clock' = clock + 1
         /\ lastEvent' = Event("sendMessage", "started")
         /\ UNCHANGED errorTimeouts
         /\ UNCHANGED authVars

(* sendMessage after generateAIResponse resolved with aiResponse *)
GenerateResolved(i, aiResponse) ==
    /\ clock < MaxClock
    /\ aiResponse.success \/ Len(errorTimeouts) < MaxErrorTimers
    /\ Commit(sendMessageResolvedState(chatState, pendingSend[i].messageId, aiResponse,
                                       clock + 1),
              storedChats, storedCurrentId)
    /\ errorTimeouts' =
         IF aiResponse.success THEN errorTimeouts
         ELSE Append(errorTimeouts, OrElse(aiResponse.error, "Failed to generate response"))
    /\ isGeneratingRef' = sendMessageSettledRef(IF aiResponse.success THEN "resolved"
                                                ELSE "failed")
    /\ pendingSend' = RemoveAt(pendingSend, i)
    /\ clock' = clock + 1
    /\ lastEvent' = Event("sendMessage", IF aiResponse.success THEN "resolved" ELSE "failed")
    /\ UNCHANGED nextId
    /\ UNCHANGED authVars

(* sendMessage after generateAIResponse rejected *)
GenerateThrew(i) ==
    /\ i \in 1..Len(pendingSend)
    /\ Len(errorTimeouts) < MaxErrorTimers
    /\ chatState' = sendMessageThrewState(chatState)
    /\ errorTimeouts' = Append(errorTimeouts, SendFailedMessage)
    /\ isGeneratingRef' = sendMessageSettledRef("threw")
    /\ pendingSend' = RemoveAt(pendingSend, i)
    /\ lastEvent' = Event("sendMessage", "threw")
    /\ UNCHANGED <<storedChats, storedCurrentId, clock, nextId>>
    /\ UNCHANGED authVars

(* updateMessage(messageId, updates) *)
UpdateMessage(messageId, updates) ==
    /\ IF chatState.currentChat = <<>>
       THEN /\ Commit(updateMessage(chatState, messageId, updates, clock),
                      storedChats, storedCurrentId)
            /\ UNCHANGED clock
       ELSE /\ clock < MaxClock
            /\ Commit(updateMessage(chatState, messageId, updates, clock + 1),
                      storedChats, storedCurrentId)
            /\ clock' = clock + 1
    /\ lastEvent' = Event("updateMessage",
                          IF \E c \in 1..Len(chatState.currentChat) :
                               \E k \in 1..Len(chatState.currentChat[c].messages) :
                                 chatState.currentChat[c].messages[k].id = messageId
                          THEN "found" ELSE "not found")
    /\ UNCHANGED <<isGeneratingRef, pendingSend, errorTimeouts, nextId>>
    /\ UNCHANGED authVars

(* addMessage(content, sender, chatId) called through the hook's interface *)
AddMessage(content, sender, chatId) ==
    IF Trim(content) = <<>>
    THEN /\ lastEvent' = Event("addMessage", "ignored blank")
         /\ UNCHANGED chatVars
         /\ UNCHANGED authVars
    ELSE /\ nextId + addMessageIds(chatState, content, chatId) <= MaxIds
         /\ clock < MaxClock
         /\ Commit(addMessage(chatState, content, sender, chatId, clock + 1, nextId),
                   storedChats, storedCurrentId)
         /\ nextId' = nextId + addMessageIds(chatState, content, chatId)
         /\ clock' = clock + 1
         /\ lastEvent' = Event("addMessage",
                               IF chatId # <<>> /\ FindIndex(chatState.chats, chatId[1]) = 0
                               THEN "not found" ELSE "added")
         /\ UNCHANGED <<isGeneratingRef, pendingSend, errorTimeouts>>
         /\ UNCHANGED authVars

(* setError(error) called through the hook's interface *)
SetError(error) ==
    /\ Truthy(error) => Len(errorTimeouts) < MaxErrorTimers
    /\ chatState' = setErrorState(chatState, error)
    /\ errorTimeouts' = setErrorTimeouts(errorTimeouts, error)
    /\ lastEvent' = Event("setError", IF Truthy(error) THEN "set" ELSE "cleared")
    /\ UNCHANGED <<isGeneratingRef, pendingSend, storedChats, storedCurrentId, clock,
                   nextId>>
    /\ UNCHANGED authVars

(* clearError() *)
ClearError ==
    /\ chatState' = clearErrorState(chatState)
    /\ lastEvent' = Event("clearError", "done")
    /\ UNCHANGED <<isGeneratingRef, pendingSend, storedChats, storedCurrentId,
                   errorTimeouts, clock, nextId>>
    /\ UNCHANGED authVars

(* importChats(jsonData) *)
ImportChats(jsonData) ==
    /\ IF importChatsThrows(jsonData)
       THEN /\ Len(errorTimeouts) < MaxErrorTimers
            /\ chatState' = importChatsState(chatState, jsonData)
            /\ errorTimeouts' = Append(errorTimeouts, ImportFailedMessage)
            /\ lastEvent' = Event("importChats", "rejected")
            /\ UNCHANGED <<storedChats, storedCurrentId>>
       ELSE /\ Len(chatState.chats) + Len(jsonData.items) <= MaxHeld
            /\ Commit(importChatsState(chatState, jsonData), storedChats, storedCurrentId)
            /\ lastEvent' = Event("importChats", "imported")
            /\ UNCHANGED errorTimeouts
    /\ UNCHANGED <<isGeneratingRef, pendingSend, clock, nextId>>
    /\ UNCHANGED authVars

(* the auto-clear timeout that setError(error) scheduled: the timeouts have *)
(* the same delay, so the one scheduled first fires first                   *)
ErrorTimeoutFired ==
    /\ errorTimeouts # <<>>
    /\ chatState' = errorTimeoutState(chatState, Head(errorTimeouts))
    /\ errorTimeouts' = Tail(errorTimeouts)
    /\ lastEvent' = Event("errorTimeout", "done")
    /\ UNCHANGED <<isGeneratingRef, pendingSend, storedChats, storedCurrentId, clock,
                   nextId>>
    /\ UNCHANGED authVars

ChatInit ==
    /\ chatState = InitialChatState
    /\ isGeneratingRef = FALSE
    /\ pendingSend = <<>>
    /\ storedChats = <<>>
    /\ storedCurrentId = <<>>
    /\ errorTimeouts = <<>>
    /\ clock = SessionStart
    /\ nextId = 0

ChatNext ==
    \/ Mount
    \/ CreateNewChat
    \/ \E chatId \in ChatIds : SelectChat(chatId)
    \/ \E chatId \in ChatIds : DeleteChat(chatId)
    \/ ClearAllChats
    \/ \E content \in Contents : SendMessage(content)
    \/ \E i \in 1..Len(pendingSend), aiResponse \in AIResponses :
          GenerateResolved(i, aiResponse)
    \/ \E i \in 1..Len(pendingSend) : GenerateThrew(i)
    \/ ErrorTimeoutFired
    \/ \E messageId \in MessageIds, updates \in MessageUpdates :
          UpdateMessage(messageId, updates)
    \/ \E jsonData \in ChatImportTexts :
          ImportChats(jsonData)
    \/ \E content \in AddContents, sender \in Senders, chatId \in OptionalChatIds :
          AddMessage(content, sender, chatId)
    \/ \E error \in SetErrors : SetError(error)
    \/ ClearError

\* the texts sent in a session that also imports and patches
StoreContents == {<<>>, <<" ", "a", " ", "\n", "b", " ">>}

\* the operations of the hook, with fewer texts to send
StoreNext ==
    \/ Mount
    \/ CreateNewChat
    \/ \E chatId \in ChatIds : SelectChat(chatId)
    \/ \E chatId \in ChatIds : DeleteChat(chatId)
    \/ ClearAllChats
    \/ \E content \in StoreContents : SendMessage(content)
    \/ \E i \in 1..Len(pendingSend), aiResponse \in AIResponses :
          GenerateResolved(i, aiResponse)
    \/ \E i \in 1..Len(pendingSend) : GenerateThrew(i)
    \/ ErrorTimeoutFired
    \/ \E messageId \in MessageIds, updates \in MessageUpdates :
          UpdateMessage(messageId, updates)
    \/ \E jsonData \in ImportTexts \cup {exportChats(chatState.chats)} :
          ImportChats(jsonData)
    \/ \E content \in AddContents, sender \in Senders, chatId \in OptionalChatIds :
          AddMessage(content, sender, chatId)
    \/ \E error \in SetErrors : SetError(error)
    \/ ClearError

\* the most chats a session that exchanges collections comes to hold
MaxExchanged == 3

\* what the generation answers there: a reply, or a failure
ExchangeResponses ==
    {[content |-> ReplyContent, success |-> TRUE, error |-> null],
     [content |-> ErrorReplyContent, success |-> FALSE, error |-> "Unknown error"]}

\* what addMessage is called with there
ExchangeAddContents == {<<"h", "i">>}

ExchangeSenders == {"user"}

\* the operations of the hook in a session that exchanges collections
ExchangeNext ==
    \/ Mount
    \/ CreateNewChat
    \/ \E chatId \in ChatIds : SelectChat(chatId)
    \/ \E chatId \in ChatIds : DeleteChat(chatId)
    \/ ClearAllChats
    \/ \E content \in StoreContents :
          SendMessage(content) /\ Len(chatState'.chats) <= MaxExchanged
    \/ \E i \in 1..Len(pendingSend), aiResponse \in ExchangeResponses :
          GenerateResolved(i, aiResponse)
    \/ \E i \in 1..Len(pendingSend) : GenerateThrew(i)
    \/ ErrorTimeoutFired
    \/ \E messageId \in MessageIds, updates \in MessageUpdates :
          UpdateMessage(messageId, updates)
    \/ \E jsonData \in ExchangeTexts \cup {exportChats(chatState.chats)} :
          ImportChats(jsonData)
    \/ \E content \in ExchangeAddContents, sender \in ExchangeSenders,
          chatId \in OptionalChatIds :
          AddMessage(content, sender, chatId) /\ Len(chatState'.chats) <= MaxExchanged
    \/ \E error \in SetErrors : SetError(error)
    \/ ClearError

(***************************************************************************)
(* Specifications                                                          *)
(***************************************************************************)
Init ==
    /\ AuthInit
    /\ ChatInit
    /\ lastEvent = Event("init", "done")

Next == AuthNext \/ ChatNext

Spec == Init /\ [][Next]_vars

\* the authentication session alone
AuthSpec == Init /\ [][AuthNext]_vars

\* the authentication session with its interval callbacks run by the event
\* loop: a scheduled interval keeps firing, and a signOut that was called
\* settles
AuthLiveSpec ==
    /\ Init /\ [][AuthNext]_vars
    /\ WF_vars(\E i \in intervals : TimerTick(i))
    /\ WF_vars(\E result \in SignOutResults : SignOutSettled(result))

\* the chat store alone, next to a session that stays signed out
SignedOutInit == Init /\ sessionStore = <<>>

ChatSpec == SignedOutInit /\ [][ChatNext]_vars

\* what the chats key may hold when the hook mounts: nothing, or a text that
\* is not the serialization of a list of chats
StoredTexts == {InvalidText, ObjectText, NoMessagesText, NoTitleText}

StoredChats == {<<>>} \cup {<<text>> : text \in StoredTexts}

\* what the current-chat-id key may hold then
StoredCurrentIds == {<<>>, <<106>>}

\* a later session of the chat store, with every operation of the hook: the
\* hook has mounted at SessionStart (load effect, then save effect) on what the
\* storage held; what it imports was exported before
StoreInit ==
    /\ AuthInit
    /\ sessionStore = <<>>
    /\ \E stored \in StoredChats, storedId \in StoredCurrentIds :
          LET st == loadInitialState(stored, storedId) IN
          \E sorted \in SortByUpdatedAt(st.chats) :
            /\ chatState = [st EXCEPT !.chats = effectChats(st, sorted)]
            /\ storedChats = effectStoredChats(st, stored, sorted)
            /\ storedCurrentId = effectStoredCurrentId(st, storedId)
    /\ isGeneratingRef = FALSE
    /\ pendingSend = <<>>
    /\ errorTimeouts = <<>>
    /\ clock = SessionStart
    /\ nextId = 0
    /\ lastEvent = Event("init", "done")

StoreSpec == StoreInit /\ [][StoreNext]_vars

\* the chat store of a session that starts empty and exchanges collections:
\* it imports texts written elsewhere and its own exports
ExchangeSpec == SignedOutInit /\ [][ExchangeNext]_vars


(***************************************************************************)
(* Properties                                                              *)
(***************************************************************************)
NewChatAfterSend(content) ==
    /\ Len(chatState'.chats) = Len(chatState.chats) + 1
    /\ chatState'.currentChat # <<>>
    /\ \A k \in 1..Len(chatState.chats) :
         chatState.chats[k].id # chatState'.currentChat[1].id
    /\ \E k \in 1..Len(chatState'.chats) :
         chatState'.chats[k] = chatState'.currentChat[1]
    /\ chatState'.currentChat[1].title = generateChatTitle(content)
    /\ Len(chatState'.currentChat[1].messages) = 2
    /\ chatState'.currentChat[1].messages[1].sender = "user"
    /\ chatState'.currentChat[1].messages[1].content = content
    /\ chatState'.currentChat[1].messages[2].sender = "assistant"
    /\ chatState'.currentChat[1].messages[2].isLoading

AssistantLoaded ==
    /\ chatState'.currentChat # <<>>
    /\ Len(chatState'.currentChat[1].messages) = 2
    /\ chatState'.currentChat[1].messages[2].sender = "assistant"
    /\ ~chatState'.currentChat[1].messages[2].isLoading

\* C1: an accepted sendMessage(c) on a store without a current chat creates
\* exactly one chat, makes it current, titles it from c and leaves in it the
\* user message followed by the assistant message, which is loading while
\* generate is pending and no longer loading once generate has resolved.
C1_SendCreatesChatWithReply ==
    [][ /\ \A content \in Contents :
             (/\ chatState.currentChat = <<>>
              /\ ~sendMessageIgnored(content)
              /\ SendMessage(content))
             => NewChatAfterSend(content)
        /\ \A aiResponse \in AIResponses :
             (/\ lastEvent = Event("sendMessage", "started")
              /\ Len(chatState.chats) = 1
              /\ Len(pendingSend) = 1
              /\ GenerateResolved(1, aiResponse))
             => AssistantLoaded ]_vars

\* the messages of all chats that carry the given id
MessagesWithId(chats, messageId) ==
    {<<c, k>> \in (1..Len(chats)) \X (1..3 * MaxIds) :
        k <= Len(chats[c].messages) /\ chats[c].messages[k].id = messageId}

\* C2: when generate resolves right after the send was accepted, the chat holds
\* the assistant message of that send, at the position it was appended at,
\* with the generated (or error-explanatory) content and isLoading = false.
C2_ReplyStoredInPlace ==
    [][ \A aiResponse \in AIResponses :
          (/\ lastEvent = Event("sendMessage", "started")
           /\ Len(pendingSend) = 1
           /\ GenerateResolved(1, aiResponse))
          => \E p \in MessagesWithId(chatState'.chats, pendingSend[1].messageId) :
               /\ p \in MessagesWithId(chatState.chats, pendingSend[1].messageId)
               /\ chatState'.chats[p[1]].messages[p[2]].content = aiResponse.content
               /\ ~chatState'.chats[p[1]].messages[p[2]].isLoading ]_vars

\* C3: pendingEmail is set exactly in step otp_verification, and user is set
\* exactly in step authenticated.
C3_StepFieldsInvariant ==
    /\ (authState.pendingEmail # null) <=> (authState.authStep = "otp_verification")
    /\ (authState.user # null) <=> (authState.authStep = "authenticated")

\* C4: at most one countdown interval is scheduled at any time.
C4_AtMostOneInterval == Cardinality(intervals) <= 1

StoredChatIds(stored) == {loadChats(stored)[k].id : k \in 1..Len(loadChats(stored))}

\* C5: right after deleteChat(id) the stored collection does not contain id,
\* the stored current-chat-id is removed when id was the current chat, and a
\* load from storage yields neither the chat nor a pointer to it.
C5_DeletePersists ==
    [][ \A chatId \in ChatIds :
          DeleteChat(chatId)
          => /\ chatId \notin StoredChatIds(storedChats')
             /\ storedCurrentId' # <<chatId>>
             /\ (chatState.currentChat # <<>> /\ chatState.currentChat[1].id = chatId)
                  => storedCurrentId' = <<>>
             /\ \A k \in 1..Len(loadInitialState(storedChats', storedCurrentId').chats) :
                  loadInitialState(storedChats', storedCurrentId').chats[k].id # chatId
             /\ loadInitialState(storedChats', storedCurrentId').currentChat = <<>>
                  \/ loadInitialState(storedChats', storedCurrentId').currentChat[1].id
                       # chatId ]_vars

\* C6: the chat collection never holds more chats than the configured cap.
C6_CollectionWithinCap == Len(chatState.chats) <= maxChats

\* C7: a loginWithEmail(email) whose send succeeds in a mounted session
\* (whatever the step it was invoked in, email_input included) ends in
\* otp_verification with pendingEmail = email, no error, not loading, and the
\* timer at 120 seconds, active, resend not allowed; when no timer handle was
\* held before, the new interval is scheduled.
C7_LoginSuccessStartsTimer ==
    [][ \A i \in 1..Len(calls) :
          (/\ mounted
           /\ calls[i].kind = "send"
           /\ SendOTPSucceeded(i))
          => /\ authState'.authStep = "otp_verification"
             /\ authState'.pendingEmail = calls[i].email
             /\ authState'.error = null
             /\ ~authState'.isLoading
             /\ authState'.otpTimer =
                  [timeRemaining |-> 120, isActive |-> TRUE, canResend |-> FALSE]
             /\ (timerInterval = NoInterval) => (timerInterval' \in intervals') ]_vars

\* the first send of a session that started signed out has succeeded
C7_Witness ==
    /\ lastEvent = Event("loginWithEmail", "success")
    /\ mounted
    /\ timerInterval \in intervals
    /\ nextInterval = 1
    /\ sessionStore = <<>>
    /\ authState.user = null
    /\ authState.authStep = "otp_verification"
    /\ authState.pendingEmail = "a@x.io"
    /\ authState.otpTimer.timeRemaining = 120

\* the part of the session a failed provider call must leave alone
PositionUnchanged ==
    /\ authState'.authStep = authState.authStep
    /\ authState'.pendingEmail = authState.pendingEmail
    /\ authState'.user = authState.user
    /\ authState'.isAuthenticated = authState.isAuthenticated
    /\ authState'.otpTimer = authState.otpTimer
    /\ intervals' = intervals
    /\ timerInterval' = timerInterval

\* C8: in a mounted session a sendOtp or verifyOtp that fails, by resolving
\* without success or by rejecting, sets error to the failure message (the
\* provider's, or a default when it gave none) and isLoading to false; neither
\* the invocation nor the failure changes step, pendingEmail, user or the
\* timer.
C8_FailureKeepsPosition ==
    [][ /\ (mounted /\ lastEvent'.outcome = "threw") =>
             /\ \A i \in 1..Len(calls) : \A error \in Rejections :
                  SendOTPThrew(i, error)
                  => /\ error.isError => authState'.error = error.message
                     /\ ~error.isError => Truthy(authState'.error)
                     /\ ~authState'.isLoading
                     /\ PositionUnchanged
             /\ \A i \in 1..Len(calls) : \A error \in Rejections :
                  VerifyOTPThrew(i, error)
                  => /\ error.isError => authState'.error = error.message
                     /\ ~error.isError => Truthy(authState'.error)
                     /\ ~authState'.isLoading
                     /\ PositionUnchanged
        /\ (mounted /\ lastEvent'.outcome = "failure") =>
             /\ \A i \in 1..Len(calls) : \A result \in SendResults :
                  SendOTPFailed(i, result)
                  => /\ authState'.error = OrElse(result.error, "Failed to send OTP")
                     /\ ~authState'.isLoading
                     /\ PositionUnchanged
             /\ \A i \in 1..Len(calls) : \A result \in VerifyResults :
                  VerifyOTPFailed(i, result)
                  => /\ authState'.error = OrElse(result.error, "Failed to verify OTP")
                     /\ ~authState'.isLoading
                     /\ PositionUnchanged
        /\ (lastEvent'.outcome = "called") =>
             /\ \A email \in Emails : LoginWithEmail(email) => PositionUnchanged
             /\ \A otpCode \in OtpCodes : VerifyOTP(otpCode) => PositionUnchanged
             /\ ResendOTP => PositionUnchanged ]_vars

C8_Witness ==
    /\ lastEvent = Event("verifyOTP", "failure")
    /\ mounted
    /\ authState.authStep = "otp_verification"
    /\ authState.error = "Invalid verification code"
    /\ authState.otpTimer.isActive
    /\ ~authState.isLoading

\* C9: verifyOTP and resendOTP invoked without a pending email set their
\* missing-email error, start no provider call, and leave step, user,
\* isLoading and the timer unchanged.
C9_MissingPendingEmail ==
    [][ /\ \A otpCode \in OtpCodes :
             (authState.pendingEmail = null /\ VerifyOTP(otpCode))
             => /\ authState'.error = "No email found for verification. Please start over."
                /\ calls' = calls
                /\ authState'.isLoading = authState.isLoading
                /\ PositionUnchanged
        /\ (authState.pendingEmail = null /\ ResendOTP)
             => /\ authState'.error = "No email found for resending OTP. Please start over."
                /\ calls' = calls
                /\ authState'.isLoading = authState.isLoading
                /\ PositionUnchanged ]_vars

C9_Witness ==
    /\ lastEvent.op = "verifyOTP"
    /\ lastEvent.outcome = "missing email"
    /\ authState.pendingEmail = null
    /\ authState.error = "No email found for verification. Please start over."
    /\ calls = <<>>

\* C10: sendMessage with blank content, or while an earlier send still awaits
\* its response, changes nothing and starts no generation; at most one send is
\* outstanding.
C10_SendGuard ==
    [][ /\ \A content \in Contents :
             ((Trim(content) = <<>> \/ pendingSend # <<>>) /\ SendMessage(content))
             => /\ chatState' = chatState
                /\ pendingSend' = pendingSend
                /\ storedChats' = storedChats
                /\ storedCurrentId' = storedCurrentId
                /\ nextId' = nextId
        /\ Len(pendingSend') <= 1 ]_vars

C10_Witness ==
    /\ lastEvent = Event("sendMessage", "ignored busy")
    /\ Len(pendingSend) = 1
    /\ isGeneratingRef

\* C11: deleteChat(x) leaves no current chat when x is the current chat's id and
\* leaves the current chat as it was otherwise (x absent from the collection
\* included); it removes exactly the chats with id x and leaves the other chats
\* and their order untouched.
C11_DeleteChat ==
    [][ \A chatId \in ChatIds :
          DeleteChat(chatId)
          => /\ chatState'.currentChat =
                  IF chatState.currentChat # <<>> /\ chatState.currentChat[1].id = chatId
                  THEN <<>> ELSE chatState.currentChat
             /\ \A k \in 1..Len(chatState'.chats) : chatState'.chats[k].id # chatId
             /\ chatState'.chats = SelectSeq(chatState.chats, LAMBDA c : c.id # chatId) ]_vars

\* a chat other than the current one was deleted: the second chat created is
\* still current and is the only chat left
C11_Witness ==
    /\ lastEvent = Event("deleteChat", "other")
    /\ Len(chatState.chats) = 1
    /\ chatState.currentChat = <<chatState.chats[1]>>
    /\ chatState.currentChat[1].id = 5
    /\ Len(loadChats(storedChats)) = 1

\* C12: whenever a current chat is set, a chat with its id is in the collection.
C12_CurrentChatInCollection ==
    chatState.currentChat # <<>>
      => \E k \in 1..Len(chatState.chats) :
           chatState.chats[k].id = chatState.currentChat[1].id

\* a chat other than the current one was deleted from a collection that held
\* a chat from elsewhere, and that chat is still current and in the collection
C12_Witness ==
    /\ lastEvent = Event("deleteChat", "other")
    /\ chatState.currentChat # <<>>
    /\ chatState.currentChat[1].id = 106
    /\ Len(chatState.chats) = 1
    /\ chatState.chats[1].id = 106

\* C13: the step only changes from email_input to otp_verification on a
\* successful send, from otp_verification to authenticated on a successful
\* verify, from otp_verification to email_input on goBackToEmail, and from
\* authenticated to email_input on logout.
C13_StepTransitions ==
    [][ (authState'.authStep # authState.authStep)
        => \/ /\ authState.authStep = "email_input"
              /\ authState'.authStep = "otp_verification"
              /\ lastEvent' = Event("loginWithEmail", "success")
           \/ /\ authState.authStep = "otp_verification"
              /\ authState'.authStep = "authenticated"
              /\ lastEvent' = Event("verifyOTP", "success")
           \/ /\ authState.authStep = "otp_verification"
              /\ authState'.authStep = "email_input"
              /\ lastEvent'.op = "goBackToEmail"
           \/ /\ authState.authStep = "authenticated"
              /\ authState'.authStep = "email_input"
              /\ lastEvent'.op = "logout" ]_vars

\* C14: the timer is always consistent: 0 <= timeRemaining <= 120, isActive
\* exactly when timeRemaining > 0, and canResend exactly when not isActive.
C14_TimerConsistent ==
    /\ authState.otpTimer.timeRemaining >= 0
    /\ authState.otpTimer.timeRemaining <= 120
    /\ authState.otpTimer.isActive <=> (authState.otpTimer.timeRemaining > 0)
    /\ authState.otpTimer.canResend <=> ~authState.otpTimer.isActive

\* the countdown has run from 120 down to 0 while waiting for the code
C14_Witness ==
    /\ lastEvent = Event("timerTick", "done")
    /\ mounted
    /\ authState.authStep = "otp_verification"
    /\ authState.pendingEmail # null
    /\ authState.otpTimer = [timeRemaining |-> 0, isActive |-> FALSE, canResend |-> TRUE]
    /\ intervals = {}
    /\ timerInterval # NoInterval

\* C15: a timer that was started keeps counting down: while the session is
\* mounted an active timer eventually becomes idle (0 seconds, inactive, resend
\* allowed), by reaching 0 or by a goBackToEmail, verify or logout.
C15_TimerReachesZero ==
    (mounted /\ authState.otpTimer.isActive)
      ~> (~mounted \/ authState.otpTimer = IdleTimer)

\* C16: in a mounted session logout ends, once signOut has settled, with the
\* initial AuthState (email_input, no user, no pending email, no error, not
\* loading, timer idle) whether signOut succeeded, returned an error or threw.
C16_LogoutResets ==
    [][ \A result \in SignOutResults :
          (mounted /\ SignOutSettled(result))
          => authState' =
               [isLoading |-> FALSE, error |-> null, isAuthenticated |-> FALSE,
                authStep |-> "email_input", user |-> null, pendingEmail |-> null,
                otpTimer |-> [timeRemaining |-> 0, isActive |-> FALSE,
                              canResend |-> TRUE]] ]_vars

\* a logout whose signOut returned an error has settled; the stored session
\* was removed when signOut was called
C16_Witness ==
    /\ lastEvent = Event("logout", "error")
    /\ mounted
    /\ signOuts = 0
    /\ sessionStore = <<>>
    /\ authState.authStep = "email_input"
    /\ authState.user = null
    /\ authState.error = null
    /\ ~authState.isLoading

\* C17: when goBackToEmail, logout or the unmount has just completed, or a
\* verify has just succeeded in a mounted session, no countdown interval is
\* scheduled any more.
C17_NoIntervalLeft ==
    (\/ lastEvent.op \in {"goBackToEmail", "unmount"}
     \/ (lastEvent.op = "logout" /\ lastEvent.outcome # "called")
     \/ (mounted /\ lastEvent = Event("verifyOTP", "success")))
      => intervals = {}

\* the texts that are not an exported collection: they do not parse, or parse
\* to something other than a list of chats with id, title, messages and dates
MalformedTexts == {InvalidText, ObjectText, NoMessagesText, NoTitleText}

\* C18: importChats of a malformed text reports the import error and leaves
\* the collection, the current chat and the storage exactly as they were.
C18_MalformedImportRejected ==
    [][ \A jsonData \in MalformedTexts :
          ImportChats(jsonData)
          => /\ chatState'.error = ImportFailedMessage
             /\ chatState'.chats = chatState.chats
             /\ chatState'.currentChat = chatState.currentChat
             /\ storedChats' = storedChats
             /\ storedCurrentId' = storedCurrentId ]_vars

\* C19: importing the export of a collection into an empty store yields that
\* collection again: the same chats in the same order, with the same ids,
\* titles and messages, and equal createdAt, updatedAt and message time stamps.
\* Stated of the collection of every reachable state: its export is accepted
\* by importChats, and an empty store that imports it holds that collection
\* once the import has been committed, in whichever order the sort left it.
C19_ExportImportRoundTrip ==
    /\ ~importChatsThrows(exportChats(chatState.chats))
    /\ LET st == importChatsState(InitialChatState, exportChats(chatState.chats))
       IN \A sorted \in SortByUpdatedAt(st.chats) :
            effectChats(st, sorted) = chatState.chats

\* C20: updateMessage with an id that no message of the current chat carries
\* (or without a current chat) changes no chat (messages, title and updatedAt
\* stay the same) and leaves the current chat as it was.
C20_UpdateMissingIsNoOp ==
    [][ \A messageId \in MessageIds : \A updates \in MessageUpdates :
          (/\ UpdateMessage(messageId, updates)
           /\ \A c \in 1..Len(chatState.currentChat) :
                \A k \in 1..Len(chatState.currentChat[c].messages) :
                  chatState.currentChat[c].messages[k].id # messageId)
          => /\ chatState'.chats = chatState.chats
             /\ chatState'.currentChat = chatState.currentChat ]_vars

\* C21: every error string in the error field is auto-cleared: while an error is
\* shown, the timeout that will clear that error is pending.
C21_ErrorHasTimeout ==
    chatState.error # null
      => \E i \in 1..Len(errorTimeouts) : errorTimeouts[i] = chatState.error

\* C22: whenever the stored collection changes, the stored value is the
\* serialization of the whole current collection sorted by updatedAt, latest
\* first, and cut to the cap, and the stored current-chat-id is the id of the
\* current chat (absent when there is none).
C22_FullWrite ==
    [][ (storedChats' # storedChats)
        => /\ storedChats' # <<>>
                => \E sorted \in SortByUpdatedAt(chatState'.chats) :
                     storedChats' = <<JSONstringify(Take(sorted, maxChats))>>
           /\ storedChats' = <<>> => chatState'.chats = <<>>
           /\ storedCurrentId' =
                IF chatState'.currentChat = <<>> THEN <<>>
                ELSE <<chatState'.currentChat[1].id>> ]_vars

\* the guard is clear and every non-blank text would be accepted
NextSendAccepted ==
    /\ ~isGeneratingRef'
    /\ \A content \in Contents :
         Trim(content) # <<>> => ~(sendMessageIgnored(content))'

\* C23: when a pending send finishes, whether generation succeeded, reported a
\* failure or threw, the single-flight guard is cleared and the next non-blank
\* sendMessage is accepted; the guard is only ever set while a send is pending.
C23_GuardCleared ==
    [][ /\ \A i \in 1..Len(pendingSend) :
             /\ \A aiResponse \in AIResponses :
                  GenerateResolved(i, aiResponse) => NextSendAccepted
             /\ GenerateThrew(i) => NextSendAccepted
        /\ isGeneratingRef' => pendingSend' # <<>> ]_vars

\* a send whose generation threw has finished
C23_Witness ==
    /\ lastEvent = Event("sendMessage", "threw")
    /\ ~isGeneratingRef
    /\ pendingSend = <<>>
    /\ chatState.error = SendFailedMessage
    /\ ~chatState.isLoading
    /\ Len(chatState.chats) = 1

\* C24: selectChat(id) with an id of the collection makes a chat with that id,
\* taken from the collection, the current chat and changes no chat; with an id
\* that is not in the collection it sets the error 'Chat not found' and leaves
\* the current chat, the collection and the storage as they were.
C24_SelectChat ==
    [][ \A chatId \in ChatIds :
          SelectChat(chatId)
          => IF \E k \in 1..Len(chatState.chats) : chatState.chats[k].id = chatId
             THEN /\ chatState'.currentChat # <<>>
                  /\ chatState'.currentChat[1].id = chatId
                  /\ \E k \in 1..Len(chatState.chats) :
                       chatState.chats[k] = chatState'.currentChat[1]
                  /\ chatState'.chats = chatState.chats
                  /\ chatState'.error = null
                  /\ storedCurrentId' = <<chatId>>
             ELSE /\ chatState'.error = "Chat not found"
                  /\ chatState'.currentChat = chatState.currentChat
                  /\ chatState'.chats = chatState.chats
                  /\ storedChats' = storedChats
                  /\ storedCurrentId' = storedCurrentId ]_vars

\* an unknown id was selected while a chat was current: that chat is still
\* current
C24_Witness ==
    /\ lastEvent = Event("selectChat", "not found")
    /\ chatState.error = "Chat not found"
    /\ chatState.currentChat # <<>>
    /\ \E k \in 1..Len(chatState.chats) : chatState.chats[k] = chatState.currentChat[1]
    /\ storedCurrentId = <<chatState.currentChat[1].id>>

\* C25: a mount on a chats key that is absent or holds a text that is not a
\* list of chats loads without an error reaching the hook, loads an empty
\* collection when the text does not parse, and starts with no current chat.
C25_LoadFailsSoft ==
    [][ (Mount /\ storedChats \in StoredChats)
        => /\ chatState'.error = null
           /\ (storedChats = <<InvalidText>>) => chatState'.chats = <<>>
           /\ chatState'.currentChat = <<>> ]_vars

IdsOfMessages(chat) == [p \in 1..Len(chat.messages) |-> chat.messages[p].id]

IsPrefix(s, t) == Len(s) <= Len(t) /\ SubSeq(t, 1, Len(s)) = s

\* the messages of `before` are still in `after`, at their places, and only a
\* loading assistant message has a new content or isLoading
MessagesKept(before, after) ==
    /\ IsPrefix(IdsOfMessages(before), IdsOfMessages(after))
    /\ \A p \in 1..Len(before.messages) :
         /\ after.messages[p].sender = before.messages[p].sender
         /\ after.messages[p].timestamp = before.messages[p].timestamp
         /\ (\/ after.messages[p].content # before.messages[p].content
             \/ after.messages[p].isLoading # before.messages[p].isLoading)
              => /\ before.messages[p].sender = "assistant"
                 /\ before.messages[p].isLoading

\* C26: across a step of any operation but deleteChat and clearAllChats, every
\* chat that is in the collection before and after keeps its messages in
\* place, new messages come at the end, and only a loading assistant message
\* has its content and isLoading updated.
C26_AppendOnly ==
    [][ (lastEvent'.op \notin {"deleteChat", "clearAllChats"})
        => \A k \in 1..Len(chatState.chats) : \A j \in 1..Len(chatState'.chats) :
             (chatState.chats[k].id = chatState'.chats[j].id)
             => MessagesKept(chatState.chats[k], chatState'.chats[j]) ]_vars

\* the stored session is older than its expires_in seconds
SessionExpired(session, now) == now > session.last_sign_in_at + session.expires_in

\* C27: at startup only a stored session that has not expired is restored: an
\* expired one is removed from the storage and the session starts in
\* email_input without a user; the session starts authenticated exactly when a
\* stored session is left.
C27_OnlyValidSessionRestored ==
    (lastEvent = Event("init", "done"))
      => /\ sessionStore # <<>> => ~SessionExpired(sessionStore[1], clock)
         /\ (authState.authStep = "authenticated") <=> (sessionStore # <<>>)
         /\ authState.isAuthenticated <=> (sessionStore # <<>>)

\* the session as goBackToEmail and logout leave it
SessionReset(st) ==
    /\ st.authStep = "email_input"
    /\ st.pendingEmail = null
    /\ st.user = null
    /\ st.otpTimer = IdleTimer

\* C28: once goBackToEmail or logout has completed and left the session in
\* email_input without pending email, user and running timer, the next step
\* leaves it so unless that step is a new loginWithEmail: a provider call that
\* was started earlier and resolves now does not undo the reset.
C28_ResetNotUndone ==
    [][ (/\ lastEvent.op \in {"goBackToEmail", "logout"}
         /\ lastEvent.outcome # "called"
         /\ SessionReset(authState)
         /\ lastEvent' # Event("loginWithEmail", "called"))
        => SessionReset(authState') ]_vars

\* what the completion of pending send i must leave alone: every chat but the
\* one its user message went to, and which chat is current
OtherChatsKept(i) ==
    /\ \A k \in 1..Len(chatState.chats) :
         (chatState.chats[k].id # pendingSend[i].chatId)
         => \E j \in 1..Len(chatState'.chats) : chatState'.chats[j] = chatState.chats[k]
    /\ (chatState'.currentChat = <<>>) <=> (chatState.currentChat = <<>>)
    /\ (chatState.currentChat # <<>>)
         => chatState'.currentChat[1].id = chatState.currentChat[1].id

\* C29: the completion of a send changes no chat other than the one that
\* received its user message (messages and updatedAt of the other chats stay
\* as they are) and keeps the current chat the user chose meanwhile.
C29_CompletionTouchesOnlyItsChat ==
    [][ \A i \in 1..Len(pendingSend) :
          /\ \A aiResponse \in AIResponses :
               GenerateResolved(i, aiResponse) => OtherChatsKept(i)
          /\ GenerateThrew(i) => OtherChatsKept(i) ]_vars

\* C30: the ids of the chats in the collection are pairwise distinct.
C30_ChatIdsDistinct ==
    \A j \in 1..Len(chatState.chats) : \A k \in 1..Len(chatState.chats) :
      (j # k) => chatState.chats[j].id # chatState.chats[k].id

====
